---- MODULE Spec2Model ----
(***************************************************************************)
(* NetworkFinder (src/peffomance/NetworkFinder.py): an IPv4 -> network     *)
(* range lookup over a DuckDB view of a CSV file, memoised by              *)
(* functools.lru_cache and serialised around the connection by a           *)
(* threading.Lock.                                                         *)
(*                                                                         *)
(* Strings the code inspects character by character (the address, the      *)
(* str() of an integer) are sequences of one-character strings; opaque     *)
(* strings (asn, organization, country) are TLA+ strings.                  *)
(***************************************************************************)
EXTENDS Integers, Sequences, FiniteSets, TLC

VARIABLES
    file,      \* the CSV file at csv_file_path: Missing, or its set of rows
    insts,     \* environment: the instances the program constructs
    callers,   \* environment: the threads that call find_network
    pool,      \* environment: the address strings the callers pass
    state,     \* per instance: "unborn", "live", "failed", "dropped", "dead"
    conn,      \* per instance: self.conn is "none", "open" or "closed"
    loaded,    \* per instance (history): the file as it was in __init__
    lock,      \* per instance: the thread holding self.lock, or 0
    cache,     \* the lru_cache table: entries, least recently used first
    used,      \* history: the cached keys by last insert or hit, oldest first
    pc,        \* per thread: its position in find_network
    self,      \* per thread: the instance it calls
    arg,       \* per thread: ip_address
    ip_int,    \* per thread: the local ip_int
    fetched,   \* per thread: the local result (fetchone())
    exc,       \* per thread: the exception in flight, or "none"
    ret,       \* per thread: the value the last call returned
    outcome,   \* per thread: "none", "pending", "returned", "raised"
    nq,        \* per thread (history): queries executed by the current call
    info,      \* per thread: the last find_network_info call and its value
    crawler    \* the BaseCrawler object (src/BaseCrawler.py) and its driver

vars == <<file, insts, callers, pool, state, conn, loaded, lock, cache, used,
          pc, self, arg, ip_int, fetched, exc, ret, outcome, nq, info,
          crawler>>

-----------------------------------------------------------------------------
(* Bounds *)

\* threads that may call find_network concurrently
NThreads == 2
\* longest address string drawn in the parsing specification
MaxLen == 9
\* the lru_cache capacity, scaled down from maxsize=10000
CacheSize == 2

\* calls of crawl() and of close() the user of one crawler makes
MaxCrawls == 2
MaxCloses == 2

Threads == 1..NThreads
Inst == {1, 2}

-----------------------------------------------------------------------------
(* Strings *)

Digits == {"0", "1", "2", "3", "4", "5", "6", "7", "8", "9"}

\* int(c) of one decimal digit
DigitVal(c) ==
    CASE c = "0" -> 0 [] c = "1" -> 1 [] c = "2" -> 2 [] c = "3" -> 3
      [] c = "4" -> 4 [] c = "5" -> 5 [] c = "6" -> 6 [] c = "7" -> 7
      [] c = "8" -> 8 [] c = "9" -> 9

DigitChar(d) ==
    CASE d = 0 -> "0" [] d = 1 -> "1" [] d = 2 -> "2" [] d = 3 -> "3"
      [] d = 4 -> "4" [] d = 5 -> "5" [] d = 6 -> "6" [] d = 7 -> "7"
      [] d = 8 -> "8" [] d = 9 -> "9"

\* str(n) of a non-negative integer: its decimal digits
RECURSIVE str(_)
str(n) == IF n < 10 THEN <<DigitChar(n)>>
          ELSE Append(str(n \div 10), DigitChar(n % 10))

\* int(s, 10) of a non-empty string of decimal digits
RECURSIVE int10(_)
int10(s) == IF s = <<>> THEN 0
            ELSE 10 * int10(SubSeq(s, 1, Len(s) - 1)) + DigitVal(s[Len(s)])

\* ip_str.split('.')
RECURSIVE split(_, _, _)
split(s, cur, acc) ==
    IF s = <<>> THEN Append(acc, cur)
    ELSE IF Head(s) = "." THEN split(Tail(s), <<>>, Append(acc, cur))
    ELSE split(Tail(s), Append(cur, Head(s)), acc)

isdigit(s) == s # <<>> /\ \A k \in 1..Len(s) : s[k] \in Digits

\* The outcome of a call that returns an integer or raises
Raise(e) == [raised |-> e]
Value(n) == [val |-> n]
Raises(r) == "raised" \in DOMAIN r

\* ipaddress.IPv4Address._parse_octet
parse_octet(octet_str) ==
    IF octet_str = <<>> THEN Raise("ValueError")
    ELSE IF ~isdigit(octet_str) THEN Raise("ValueError")
    ELSE IF Len(octet_str) > 3 THEN Raise("ValueError")
    ELSE IF octet_str # <<"0">> /\ octet_str[1] = "0" THEN Raise("ValueError")
    ELSE IF int10(octet_str) > 255 THEN Raise("ValueError")
    ELSE Value(int10(octet_str))

\* ipaddress.IPv4Address(ip_address) followed by int(): the address is a str
IPv4Address(ip_str) ==
    IF \E k \in 1..Len(ip_str) : ip_str[k] = "/" THEN Raise("AddressValueError")
    ELSE IF ip_str = <<>> THEN Raise("AddressValueError")
    ELSE LET octets == split(ip_str, <<>>, <<>>) IN
         IF Len(octets) # 4 THEN Raise("AddressValueError")
         ELSE LET parsed == [k \in 1..4 |-> parse_octet(octets[k])] IN
              IF \E k \in 1..4 : Raises(parsed[k])
              THEN Raise("AddressValueError")
              ELSE Value(  parsed[1].val * 16777216
                         + parsed[2].val * 65536
                         + parsed[3].val * 256
                         + parsed[4].val)

\* NetworkFinder.ip_to_int: every failure of IPv4Address becomes ValueError
ip_to_int(ip_address) ==
    LET address == IPv4Address(ip_address) IN
    IF Raises(address) THEN Raise("ValueError") ELSE address

-----------------------------------------------------------------------------
(* The dataset *)

None == [py |-> "None"]

Row(network, min_ip, max_ip, asn, organization, country) ==
    [network |-> network, min_ip |-> min_ip, max_ip |-> max_ip,
     asn |-> asn, organization |-> organization, country |-> country]

Net24 == <<"9", ".", "9", ".", "9", ".", "0", "/", "2", "4">>
Net16 == <<"9", ".", "9", ".", "0", ".", "0", "/", "1", "6">>
NetB == <<"9", ".", "9", ".", "9", ".", "9", "/", "b">>

\* 9.9.9.0 - 9.9.9.255
R24 == Row(Net24, 151587072, 151587327, "AS13335", "Cloudflare", "US")
\* 9.9.0.0 - 9.9.255.255, around R24
R16 == Row(Net16, 151584768, 151650303, "AS3269", "Telecom", "IT")
\* 9.9.9.9 - 9.9.10.8, overlapping R24 with the same range_size
RB == Row(NetB, 151587081, 151587336, "AS3320", "Telekom", "DE")

RowPool == {R24, R16, RB}

NoFile == [exists |-> FALSE]
CsvFile(rows) == [exists |-> TRUE, rows |-> rows]
Files == {NoFile} \cup {CsvFile(rows) : rows \in SUBSET RowPool}

\* The view network_ranges over the rows read_csv_auto reads from the file
network_ranges(rows) ==
    {[row |-> r, range_size |-> r.max_ip - r.min_ip] : r \in rows}

\* query without ORDER BY range_size: any matching row may come first
query_unordered(rows, n) ==
    {v.row : v \in {w \in network_ranges(rows) :
                       w.row.min_ip <= n /\ n <= w.row.max_ip}}

\* The rows the query can return first: WHERE min_ip <= ip_int AND
\* ip_int <= max_ip ORDER BY range_size LIMIT 1. ORDER BY names no second
\* key, so any row of the smallest range_size may come first.
query(rows, n) ==
    LET matching == {v \in network_ranges(rows) :
                        v.row.min_ip <= n /\ n <= v.row.max_ip}
        first == {v \in matching :
                     \A w \in matching : v.range_size <= w.range_size}
    IN {v.row : v \in first}

\* self.conn.execute(query).fetchone(): a row, or None when no row matches
fetchone(rows, n) ==
    LET first == query(rows, n) IN IF first = {} THEN {None} ELSE first

\* What execute() may do when another thread is inside the same connection:
\* DuckDB connections are not safe for concurrent use
race_outcomes == RowPool \cup {None}

\* find_network returning None when no row matches
result_network_absent(ip_address, n, result) ==
    IF result # None
    THEN [network |-> result.network,
          min_ip |-> str(result.min_ip),
          max_ip |-> str(result.max_ip),
          asn |-> result.asn,
          organization |-> result.organization,
          country |-> result.country]
    ELSE None

\* find_network, after the query: the record built from the fetched row
result_network(ip_address, n, result) ==
    IF result # None
    THEN [network |-> result.network,
          min_ip |-> str(result.min_ip),
          max_ip |-> str(result.max_ip),
          asn |-> result.asn,
          organization |-> result.organization,
          country |-> result.country]
    ELSE [network |-> ip_address,
          min_ip |-> str(n),
          max_ip |-> str(n),
          asn |-> "00000000",
          organization |-> "unknown",
          country |-> "XX"]

-----------------------------------------------------------------------------
(* functools.lru_cache(maxsize=CacheSize) *)

\* a key made of the address alone, as if find_network were a function
make_key_address(i, a) == <<1, a>>

\* the key lru_cache makes of the positional arguments (self, ip_address)
make_key(i, a) == <<i, a>>

Keys(c) == {c[k].key : k \in 1..Len(c)}

Entry(c, key) == c[CHOOSE k \in 1..Len(c) : c[k].key = key]

Without(c, key) == SelectSeq(c, LAMBDA e : e.key # key)

\* a hit that leaves the link where it is (first in, first out)
lru_hit_unmoved(c, key) == c

\* a hit: the link is moved to the most recently used end
lru_hit(c, key) == Append(Without(c, key), Entry(c, key))

\* an insertion that does not look for the key again after the call
lru_insert_unchecked(c, key, result) ==
    IF Len(c) < CacheSize
    THEN Append(c, [key |-> key, result |-> result])
    ELSE Append(Tail(c), [key |-> key, result |-> result])

\* after the wrapped call returned: the key may have been added meanwhile
\* (nothing is done); otherwise it is appended, in place of the oldest link
\* when the cache is full
lru_insert(c, key, result) ==
    IF key \in Keys(c) THEN c
    ELSE IF Len(c) < CacheSize
         THEN Append(c, [key |-> key, result |-> result])
         ELSE Append(Tail(c), [key |-> key, result |-> result])

-----------------------------------------------------------------------------
(* The environment *)

\* 9.9.9.9: inside R24, R16 and RB
AddrNested == <<"9", ".", "9", ".", "9", ".", "9">>
\* 9.9.99.9: inside R16 alone
AddrOne == <<"9", ".", "9", ".", "9", "9", ".", "9">>
\* 99.9.9.9: inside no row
AddrNone == <<"9", "9", ".", "9", ".", "9", ".", "9">>
\* three octets
AddrBad == <<"9", ".", "9", ".", "9">>

Pool == {AddrNested, AddrOne, AddrNone, AddrBad}

\* the addresses concurrent callers share
HotPool == {AddrNested, AddrNone, AddrBad}

\* the characters of the strings the parsing specification draws
Alphabet == {"9", ".", "a"}

Strings == UNION {[1..n -> Alphabet] : n \in 0..MaxLen}

-----------------------------------------------------------------------------
(* find_network_info *)

\* no find_network_info call has ended yet
NoInfo == [py |-> "NoCall"]

\* the f-string find_network_info returns, as its lines (label, value)
rendering(ip_address, result) ==
    <<<<"IP", ip_address>>,
      <<"Network", result.network>>,
      <<"ASN", result.asn>>,
      <<"Organization", result.organization>>,
      <<"Country", result.country>>>>

\* find_network_info answering None for the unknown record too
find_network_info_found(ip_address, result) ==
    IF result # None /\ result.organization # "unknown"
    THEN rendering(ip_address, result)
    ELSE None

\* find_network_info, after result = self.find_network(ip_address): a dict
\* is truthy (it has keys), None is not
find_network_info(ip_address, result) ==
    IF result # None THEN rendering(ip_address, result) ELSE None

-----------------------------------------------------------------------------
(* BaseCrawler: the object *)

\* a BaseCrawler before __init__ ran
\*   state    unborn, live, failed (__init__ raised), dead (__del__ ran)
\*   driver   unset (self.driver was never assigned), running, quit
\*   block    the with statement: outside, inside, left
\*   pc       where crawl() is: idle, get, wait, manage
\*   got, complete, managed   (history) of the current crawl: driver.get
\*            returned, readyState was seen complete, calls of manage()
\*   thrown   the exception raised inside crawl()'s try block
\*   exc      the exception the last crawl() left with
\*   close_exc  the exception the last close() left with
\*   pending  the exception the body of the with statement ended with
\*   out      what the with statement left with, once left
\*   quits    (history) calls of driver.quit()
\*   quit_error  (history) a driver.quit() raised
\*   log      the messages logged as errors
\*   crawls, closes  (history) calls of crawl() and of close() by the user
NewCrawler ==
    [state |-> "unborn", driver |-> "unset", block |-> "outside",
     pc |-> "idle", got |-> FALSE, complete |-> FALSE, managed |-> 0,
     thrown |-> "none", exc |-> "none", close_exc |-> "none",
     pending |-> "none", out |-> "none",
     quits |-> 0, quit_error |-> FALSE, log |-> {},
     crawls |-> 0, closes |-> 0]

-----------------------------------------------------------------------------
(* Initial states *)

InitObjects ==
    /\ state = [i \in Inst |-> "unborn"]
    /\ conn = [i \in Inst |-> "none"]
    /\ loaded = [i \in Inst |-> NoFile]
    /\ lock = [i \in Inst |-> 0]
    /\ cache = <<>>
    /\ used = <<>>
    /\ pc = [t \in Threads |-> "idle"]
    /\ self = [t \in Threads |-> 0]
    /\ arg = [t \in Threads |-> <<>>]
    /\ ip_int = [t \in Threads |-> 0]
    /\ fetched = [t \in Threads |-> None]
    /\ exc = [t \in Threads |-> "none"]
    /\ ret = [t \in Threads |-> None]
    /\ outcome = [t \in Threads |-> "none"]
    /\ nq = [t \in Threads |-> 0]
    /\ info = [t \in Threads |-> NoInfo]
    /\ crawler = NewCrawler

\* one instance, every thread calling it with the addresses of HotPool,
\* over no file or over the file of all rows
Init ==
    /\ file \in {NoFile, CsvFile(RowPool)}
    /\ insts = {1}
    /\ callers = Threads
    /\ pool = HotPool
    /\ InitObjects

\* one instance, one caller, one address string out of Strings
InitParse ==
    /\ file = CsvFile(RowPool)
    /\ insts = {1}
    /\ callers = {1}
    /\ pool \in {{s} : s \in Strings}
    /\ InitObjects

\* one instance, one caller, the addresses of Pool, over any file
InitSeq ==
    /\ file \in Files
    /\ insts = {1}
    /\ callers = {1}
    /\ pool = Pool
    /\ InitObjects

\* the addresses the callers of two instances share
TwoPool == {AddrNested, AddrNone}

\* two instances over the same file, two callers of both
InitTwo ==
    /\ file = CsvFile(RowPool)
    /\ insts = {1, 2}
    /\ callers = {1, 2}
    /\ pool = TwoPool
    /\ InitObjects

-----------------------------------------------------------------------------
(* Construction and teardown *)

\* __init__ without the exists() test: the instance is built over no file
ConstructLazy(i) ==
    /\ i \in insts
    /\ state[i] = "unborn"
    /\ conn' = [conn EXCEPT ![i] = "open"]
    /\ state' = [state EXCEPT ![i] = "live"]
    /\ loaded' = [loaded EXCEPT ![i] = file]
    /\ lock' = [lock EXCEPT ![i] = 0]
    /\ UNCHANGED <<file, insts, callers, pool, info, crawler, cache, used, pc, self, arg,
                   ip_int, fetched, exc, ret, outcome, nq>>

\* NetworkFinder.__init__: the connection is opened before the file is
\* looked for; the view is registered over the file, no row is copied
Construct(i) ==
    /\ i \in insts
    /\ state[i] = "unborn"
    /\ conn' = [conn EXCEPT ![i] = "open"]
    /\ IF ~file.exists
       THEN /\ state' = [state EXCEPT ![i] = "failed"]
            /\ UNCHANGED <<loaded, lock>>
       ELSE /\ state' = [state EXCEPT ![i] = "live"]
            /\ loaded' = [loaded EXCEPT ![i] = file]
            /\ lock' = [lock EXCEPT ![i] = 0]
    /\ UNCHANGED <<file, insts, callers, pool, info, crawler, cache, used, pc, self, arg,
                   ip_int, fetched, exc, ret, outcome, nq>>

\* the caller lets go of its reference to the instance
Drop(i) ==
    /\ state[i] = "live"
    /\ state' = [state EXCEPT ![i] = "dropped"]
    /\ UNCHANGED <<file, insts, callers, pool, info, crawler, conn, loaded, lock, cache, used,
                   pc, self, arg, ip_int, fetched, exc, ret, outcome, nq>>

\* an instance nothing refers to: not its caller, not a running call, not a
\* key of the lru_cache (the key holds self)
Unreferenced(i) ==
    /\ state[i] \in {"failed", "dropped"}
    /\ \A t \in Threads : ~(pc[t] # "idle" /\ self[t] = i)
    /\ \A k \in Keys(cache) : k[1] # i

\* NetworkFinder.__del__, run when the instance is collected
Del(i) ==
    /\ Unreferenced(i)
    /\ state' = [state EXCEPT ![i] = "dead"]
    /\ conn' = [conn EXCEPT ![i] = IF conn[i] # "none" THEN "closed" ELSE @]
    /\ UNCHANGED <<file, insts, callers, pool, info, crawler, loaded, lock, cache, used,
                   pc, self, arg, ip_int, fetched, exc, ret, outcome, nq>>

-----------------------------------------------------------------------------
(* find_network, wrapped by lru_cache *)

\* the call ends: the locals of the frame are gone
EndCall(t, how) ==
    /\ pc' = [pc EXCEPT ![t] = "idle"]
    /\ outcome' = [outcome EXCEPT ![t] = how]
    /\ ip_int' = [ip_int EXCEPT ![t] = 0]
    /\ fetched' = [fetched EXCEPT ![t] = None]

\* the call of thread t is over (ret, arg and self are those of that call)
Finished(t) == pc[t] = "idle" /\ outcome[t] \in {"returned", "raised"}
Returned(t) == pc[t] = "idle" /\ outcome[t] = "returned"

\* the lru_cache wrapper looks the key up: a hit returns the cached result
\* and makes the entry the most recently used; a miss calls find_network
Call(t, i, a) ==
    /\ pc[t] = "idle"
    /\ state[i] = "live"
    /\ self' = [self EXCEPT ![t] = i]
    /\ arg' = [arg EXCEPT ![t] = a]
    /\ exc' = [exc EXCEPT ![t] = "none"]
    /\ nq' = [nq EXCEPT ![t] = 0]
    /\ IF make_key(i, a) \in Keys(cache)
       THEN /\ cache' = lru_hit(cache, make_key(i, a))
            /\ used' = Append(SelectSeq(used, LAMBDA k : k # make_key(i, a)),
                              make_key(i, a))
            /\ ret' = [ret EXCEPT ![t] = Entry(cache, make_key(i, a)).result]
            /\ EndCall(t, "returned")
       ELSE /\ pc' = [pc EXCEPT ![t] = "norm"]
            /\ outcome' = [outcome EXCEPT ![t] = "pending"]
            /\ ret' = [ret EXCEPT ![t] = None]
            /\ UNCHANGED <<cache, used, ip_int, fetched>>
    /\ UNCHANGED <<file, insts, callers, pool, info, crawler, state, conn, loaded, lock>>

\* find_network without its except clause: the ValueError reaches the caller
NormalizeUncaught(t) ==
    /\ pc[t] = "norm"
    /\ LET n == ip_to_int(arg[t]) IN
       IF Raises(n)
       THEN /\ exc' = [exc EXCEPT ![t] = "ValueError"]
            /\ EndCall(t, "raised")
       ELSE /\ ip_int' = [ip_int EXCEPT ![t] = n.val]
            /\ pc' = [pc EXCEPT ![t] = "acquire"]
            /\ UNCHANGED <<exc, outcome, fetched>>
    /\ UNCHANGED <<file, insts, callers, pool, info, crawler, state, conn, loaded, lock, cache,
                   used, self, arg, ret, nq>>

\* except ValueError: ip_int = 0: the lookup goes on with address 0
NormalizeDefault(t) ==
    /\ pc[t] = "norm"
    /\ LET n == ip_to_int(arg[t]) IN
       ip_int' = [ip_int EXCEPT ![t] = IF Raises(n) THEN 0 ELSE n.val]
    /\ pc' = [pc EXCEPT ![t] = "acquire"]
    /\ UNCHANGED <<file, insts, callers, pool, info, crawler, state, conn, loaded, lock, cache,
                   used, self, arg, fetched, exc, ret, outcome, nq>>

\* ip_int = self.ip_to_int(ip_address); a ValueError makes the call return None
Normalize(t) ==
    /\ pc[t] = "norm"
    /\ LET n == ip_to_int(arg[t]) IN
       IF Raises(n)
       THEN /\ ret' = [ret EXCEPT ![t] = None]
            /\ pc' = [pc EXCEPT ![t] = "insert"]
            /\ UNCHANGED ip_int
       ELSE /\ ip_int' = [ip_int EXCEPT ![t] = n.val]
            /\ pc' = [pc EXCEPT ![t] = "acquire"]
            /\ UNCHANGED ret
    /\ UNCHANGED <<file, insts, callers, pool, info, crawler, state, conn, loaded, lock, cache,
                   used, self, arg, fetched, exc, outcome, nq>>

\* the query run without taking the lock
AcquireUnlocked(t) ==
    /\ pc[t] = "acquire"
    /\ pc' = [pc EXCEPT ![t] = "execute"]
    /\ UNCHANGED <<file, insts, callers, pool, info, crawler, state, conn, loaded, lock, cache,
                   used, self, arg, ip_int, fetched, exc, ret, outcome, nq>>

\* with self.lock: entered when the lock is free
Acquire(t) ==
    /\ pc[t] = "acquire"
    /\ lock[self[t]] = 0
    /\ lock' = [lock EXCEPT ![self[t]] = t]
    /\ pc' = [pc EXCEPT ![t] = "execute"]
    /\ UNCHANGED <<file, insts, callers, pool, info, crawler, state, conn, loaded, cache, used,
                   self, arg, ip_int, fetched, exc, ret, outcome, nq>>

\* another thread is inside execute() on the same connection
Racing(t) ==
    \E u \in Threads \ {t} : pc[u] = "execute" /\ self[u] = self[t]

\* result = self.conn.execute(query).fetchone(): the view reads the file as
\* it is now
Execute(t) ==
    /\ pc[t] = "execute"
    /\ nq' = [nq EXCEPT ![t] = @ + 1]
    /\ pc' = [pc EXCEPT ![t] = "release"]
    /\ IF Racing(t)
       THEN \/ /\ fetched' \in {[fetched EXCEPT ![t] = r] : r \in race_outcomes}
               /\ UNCHANGED exc
            \/ /\ exc' = [exc EXCEPT ![t] = "InternalException"]
               /\ UNCHANGED fetched
       ELSE IF ~file.exists
            THEN /\ exc' = [exc EXCEPT ![t] = "IOException"]
                 /\ UNCHANGED fetched
            ELSE /\ fetched' \in {[fetched EXCEPT ![t] = r] :
                                     r \in fetchone(file.rows, ip_int[t])}
                 /\ UNCHANGED exc
    /\ UNCHANGED <<file, insts, callers, pool, info, crawler, state, conn, loaded, lock, cache,
                   used, self, arg, ip_int, ret, outcome>>

\* an except clause around execute(): the failed query is answered with the
\* unknown record
ReleaseSwallowed(t) ==
    /\ pc[t] = "release"
    /\ lock' = [i \in Inst |-> IF lock[i] = t THEN 0 ELSE lock[i]]
    /\ pc' = [pc EXCEPT ![t] = "build"]
    /\ UNCHANGED <<outcome, ip_int, fetched>>
    /\ UNCHANGED <<file, insts, callers, pool, info, crawler, state, conn, loaded, cache, used,
                   self, arg, exc, ret, nq>>

\* lock.acquire() and lock.release() around execute() without try/finally:
\* an exception of execute() leaves the lock taken
ReleaseSkippedOnError(t) ==
    /\ pc[t] = "release"
    /\ IF exc[t] # "none"
       THEN /\ EndCall(t, "raised")
            /\ UNCHANGED lock
       ELSE /\ lock' = [i \in Inst |-> IF lock[i] = t THEN 0 ELSE lock[i]]
            /\ pc' = [pc EXCEPT ![t] = "build"]
            /\ UNCHANGED <<outcome, ip_int, fetched>>
    /\ UNCHANGED <<file, insts, callers, pool, info, crawler, state, conn, loaded, cache, used,
                   self, arg, exc, ret, nq>>

\* the with block reaching over the building of result_network: the lock is
\* still held when the query call is over
ReleaseAfterBuild(t) ==
    /\ pc[t] = "release"
    /\ IF exc[t] # "none"
       THEN /\ lock' = [i \in Inst |-> IF lock[i] = t THEN 0 ELSE lock[i]]
            /\ EndCall(t, "raised")
       ELSE /\ pc' = [pc EXCEPT ![t] = "build"]
            /\ UNCHANGED <<lock, outcome, ip_int, fetched>>
    /\ UNCHANGED <<file, insts, callers, pool, info, crawler, state, conn, loaded, cache, used,
                   self, arg, exc, ret, nq>>

\* lock.acquire() without a release on the way out
ReleaseForgotten(t) ==
    /\ pc[t] = "release"
    /\ IF exc[t] # "none"
       THEN EndCall(t, "raised")
       ELSE /\ pc' = [pc EXCEPT ![t] = "build"]
            /\ UNCHANGED <<outcome, ip_int, fetched>>
    /\ UNCHANGED <<file, insts, callers, pool, info, crawler, state, conn, loaded, lock, cache,
                   used, self, arg, exc, ret, nq>>

\* the with block is left: the lock is released, an exception of execute()
\* goes on to the caller through the wrapper, which caches nothing
Release(t) ==
    /\ pc[t] = "release"
    /\ lock' = [i \in Inst |-> IF lock[i] = t THEN 0 ELSE lock[i]]
    /\ IF exc[t] # "none"
       THEN EndCall(t, "raised")
       ELSE /\ pc' = [pc EXCEPT ![t] = "build"]
            /\ UNCHANGED <<outcome, ip_int, fetched>>
    /\ UNCHANGED <<file, insts, callers, pool, info, crawler, state, conn, loaded, cache, used,
                   self, arg, exc, ret, nq>>

\* result_network is built from the fetched row, or as the unknown record
Build(t) ==
    /\ pc[t] = "build"
    /\ ret' = [ret EXCEPT ![t] = result_network(arg[t], ip_int[t], fetched[t])]
    /\ pc' = [pc EXCEPT ![t] = "insert"]
    /\ UNCHANGED <<file, insts, callers, pool, info, crawler, state, conn, loaded, lock, cache,
                   used, self, arg, ip_int, fetched, exc, outcome, nq>>

\* find_network returned: the wrapper stores the result and returns it
Insert(t) ==
    /\ pc[t] = "insert"
    /\ cache' = lru_insert(cache, make_key(self[t], arg[t]), ret[t])
    /\ used' = IF make_key(self[t], arg[t]) \in Keys(cache) THEN used
               ELSE Append(SelectSeq(used, LAMBDA k : k \in Keys(cache')),
                           make_key(self[t], arg[t]))
    /\ EndCall(t, "returned")
    /\ UNCHANGED <<file, insts, callers, pool, info, crawler, state, conn, loaded, lock,
                   self, arg, exc, ret, nq>>

\* find_network_info returned: result = self.find_network(ip_address) is the
\* call of thread t that just returned, and the value is made of it
Format(t) ==
    /\ Returned(t)
    /\ info' = [info EXCEPT ![t] =
                   [ip_address |-> arg[t], result |-> ret[t],
                    value |-> find_network_info(arg[t], ret[t])]]
    /\ UNCHANGED <<file, insts, callers, pool, crawler, state, conn, loaded,
                   lock, cache, used, pc, self, arg, ip_int, fetched, exc,
                   ret, outcome, nq>>

\* what the caller writes into a record it was given
Written == "ZZ"

\* the caller of find_network writes result['country'] = Written into the
\* dict the call returned. The wrapper returned the very object it keeps
\* under the key, not a copy: with one caller, the object of the last call
\* is the one in the cache for as long as the key is there
Mutate(t) ==
    /\ callers = {t}
    /\ Returned(t)
    /\ ret[t] # None
    /\ ret[t].country # Written
    /\ make_key(self[t], arg[t]) \in Keys(cache)
    /\ ret' = [ret EXCEPT ![t] = [@ EXCEPT !.country = Written]]
    /\ cache' = [k \in 1..Len(cache) |->
                    IF cache[k].key = make_key(self[t], arg[t])
                    THEN [cache[k] EXCEPT !.result = ret'[t]]
                    ELSE cache[k]]
    /\ UNCHANGED <<file, insts, callers, pool, info, crawler, state, conn,
                   loaded, lock, used, pc, self, arg, ip_int, fetched, exc,
                   outcome, nq>>

\* the file is replaced, rewritten or deleted by something else
FileChange ==
    /\ file' \in Files \ {file}
    /\ UNCHANGED <<insts, callers, pool, info, crawler, state, conn, loaded, lock, cache, used,
                   pc, self, arg, ip_int, fetched, exc, ret, outcome, nq>>

-----------------------------------------------------------------------------
(* BaseCrawler: crawl, close and the context manager *)

finder_vars == <<file, insts, callers, pool, state, conn, loaded, lock,
                 cache, used, pc, self, arg, ip_int, fetched, exc, ret,
                 outcome, nq, info>>

\* what manage() of FirefoxUserAgentsCrawler may raise: the wait for
\* main-content times out, a driver call fails, versions[...] is out of range
ManageErrors == {"TimeoutException", "WebDriverException", "IndexError"}

\* the except clauses of crawl(): each logs and raises again
crawl_except(e) ==
    IF e = "TimeoutException"
    THEN [log |-> "Timeout while loading", exc |-> e]
    ELSE IF e = "WebDriverException"
         THEN [log |-> "WebDriver error occurred", exc |-> e]
         ELSE [log |-> "Unexpected error during crawling", exc |-> e]

\* close() without its try/except: an error of driver.quit() leaves close()
close_unguarded(c) ==
    IF c.driver = "unset"
    THEN {[c EXCEPT !.close_exc = "AttributeError"]}
    ELSE {[c EXCEPT !.quits = @ + 1, !.driver = "quit",
                    !.close_exc = "none"],
          [c EXCEPT !.quits = @ + 1, !.quit_error = TRUE,
                    !.close_exc = "WebDriverException"]}

\* close(): the crawlers it may leave. `if self.driver` raises
\* AttributeError when __init__ never assigned self.driver; a driver object
\* is truthy, also after quit(), so driver.quit() is called; its error is
\* logged and close() returns (the session may or may not be gone then)
close(c) ==
    IF c.driver = "unset"
    THEN {[c EXCEPT !.close_exc = "AttributeError"]}
    ELSE {[c EXCEPT !.quits = @ + 1, !.driver = "quit",
                    !.close_exc = "none"]}
         \cup
         {[c EXCEPT !.quits = @ + 1, !.driver = d, !.quit_error = TRUE,
                    !.log = @ \cup {"Error closing WebDriver"},
                    !.close_exc = "none"] : d \in {c.driver, "quit"}}

\* BaseCrawler.__init__: _initialize_driver returns the driver, or logs and
\* raises before self.driver is assigned
CrawlerInit ==
    /\ crawler.state = "unborn"
    /\ \/ crawler' = [crawler EXCEPT !.state = "live", !.driver = "running"]
       \/ crawler' = [crawler EXCEPT
                         !.state = "failed",
                         !.log = @ \cup {"Failed to initialize WebDriver"}]
    /\ UNCHANGED finder_vars

\* __enter__: the with block is entered
Enter ==
    /\ crawler.state = "live"
    /\ crawler.block = "outside"
    /\ crawler.pc = "idle"
    /\ crawler' = [crawler EXCEPT !.block = "inside"]
    /\ UNCHANGED finder_vars

\* crawl(url) is called
Crawl ==
    /\ crawler.state = "live"
    /\ crawler.pc = "idle"
    /\ crawler.crawls < MaxCrawls
    /\ crawler' = [crawler EXCEPT !.pc = "get", !.crawls = @ + 1,
                                  !.got = FALSE, !.complete = FALSE,
                                  !.managed = 0, !.thrown = "none",
                                  !.exc = "none"]
    /\ UNCHANGED finder_vars

\* an exception e was raised inside the try block of crawl()
Fail(e) ==
    crawler' = [crawler EXCEPT !.pc = "idle", !.thrown = e,
                               !.exc = crawl_except(e).exc,
                               !.log = @ \cup {crawl_except(e).log}]

\* manage() called as soon as driver.get() returned
GetThenManage ==
    /\ crawler.pc = "get"
    /\ \/ /\ crawler.driver = "running"
          /\ crawler' = [crawler EXCEPT !.pc = "manage", !.got = TRUE]
       \/ Fail("WebDriverException")
    /\ UNCHANGED finder_vars

\* self.driver.get(url): returns, or raises (always, once the session is
\* gone)
Get ==
    /\ crawler.pc = "get"
    /\ \/ /\ crawler.driver = "running"
          /\ crawler' = [crawler EXCEPT !.pc = "wait", !.got = TRUE]
       \/ Fail("WebDriverException")
    /\ UNCHANGED finder_vars

\* self.wait.until(readyState == "complete"): returns once the state was
\* seen complete, times out, or execute_script raises
Wait ==
    /\ crawler.pc = "wait"
    /\ \/ crawler' = [crawler EXCEPT !.pc = "manage", !.complete = TRUE]
       \/ Fail("TimeoutException")
       \/ Fail("WebDriverException")
    /\ UNCHANGED finder_vars

\* self.manage(): returns, and crawl() with it, or raises
Manage ==
    /\ crawler.pc = "manage"
    /\ \/ crawler' = [crawler EXCEPT !.pc = "idle", !.managed = @ + 1]
       \/ \E e \in ManageErrors :
              crawler' = [crawler EXCEPT
                             !.pc = "idle", !.managed = @ + 1, !.thrown = e,
                             !.exc = crawl_except(e).exc,
                             !.log = @ \cup {crawl_except(e).log}]
    /\ UNCHANGED finder_vars

\* close() called by the user of the crawler
Close ==
    /\ crawler.state = "live"
    /\ crawler.pc = "idle"
    /\ crawler.closes < MaxCloses
    /\ crawler' \in {[d EXCEPT !.closes = @ + 1] : d \in close(crawler)}
    /\ UNCHANGED finder_vars

\* __exit__: the body of the with statement ended, with the exception of its
\* last crawl() unless the body caught it; close() is called and None is
\* returned, so the exception of the body goes on
Exit ==
    /\ crawler.block = "inside"
    /\ crawler.pc = "idle"
    /\ \E p \in {crawler.exc, "none"} : \E d \in close(crawler) :
           crawler' = [d EXCEPT
                          !.block = "left",
                          !.pending = p,
                          !.out = IF d.close_exc # "none" THEN d.close_exc
                                  ELSE IF p # "none" THEN p ELSE "normal"]
    /\ UNCHANGED finder_vars

\* __del__, run when the crawler is collected: after its user let go of it,
\* or after __init__ raised
CrawlerDel ==
    /\ crawler.state \in {"live", "failed"}
    /\ crawler.pc = "idle"
    /\ crawler.block # "inside"
    /\ crawler' \in {[d EXCEPT !.state = "dead"] : d \in close(crawler)}
    /\ UNCHANGED finder_vars

-----------------------------------------------------------------------------
(* Specifications *)

Lookup ==
    \/ \E t \in callers, i \in insts, a \in pool : Call(t, i, a)
    \/ \E t \in Threads : Normalize(t)
    \/ \E t \in Threads : Acquire(t)
    \/ \E t \in Threads : Execute(t)
    \/ \E t \in Threads : Release(t)
    \/ \E t \in Threads : Build(t)
    \/ \E t \in Threads : Insert(t)

Lifecycle ==
    \/ \E i \in Inst : Construct(i)
    \/ \E i \in Inst : Drop(i)
    \/ \E i \in Inst : Del(i)

Next == Lookup \/ Lifecycle

\* concurrent callers; the file stays as it was at construction
Spec == Init /\ [][Next]_vars

\* one caller, every dataset; the file stays as it was at construction
SpecSeq == InitSeq /\ [][Next]_vars

\* one caller, one address string out of every string over Alphabet
SpecParse == InitParse /\ [][Next]_vars

NextEnv == Next \/ FileChange

\* one caller; the file may change at any time
SpecEnv == InitSeq /\ [][NextEnv]_vars

\* two instances, whose lookups go through the one lru_cache of the class
SpecTwo == InitTwo /\ [][Next]_vars

NextWrite == Next \/ \E t \in Threads : Mutate(t)

\* one caller, who may write into the records it is given
SpecWrite == InitSeq /\ [][NextWrite]_vars

NextInfo == Next \/ \E t \in Threads : Format(t)

\* one caller, every dataset; lookups made through find_network_info
SpecInfo == InitSeq /\ [][NextInfo]_vars

NextCrawler ==
    \/ CrawlerInit
    \/ Enter
    \/ Crawl
    \/ Get
    \/ Wait
    \/ Manage
    \/ Close
    \/ Exit
    \/ CrawlerDel

\* one BaseCrawler and its user; no NetworkFinder
InitCrawler ==
    /\ file = NoFile
    /\ insts = {}
    /\ callers = {}
    /\ pool = {}
    /\ InitObjects

SpecCrawler == InitCrawler /\ [][NextCrawler]_vars

\* one caller; an instance nothing refers to is collected (reference
\* counting runs __del__ when the last reference goes)
FairSpec ==
    /\ InitSeq
    /\ [][Next]_vars
    /\ \A i \in Inst : WF_vars(Del(i))

\* one caller; every call that has begun runs to its end, and an instance
\* nothing refers to is collected
FairLookup ==
    /\ InitSeq
    /\ [][Next]_vars
    /\ \A i \in Inst : WF_vars(Del(i))
    /\ \A t \in Threads :
           WF_vars(Normalize(t) \/ Acquire(t) \/ Execute(t) \/ Release(t)
                   \/ Build(t) \/ Insert(t))

-----------------------------------------------------------------------------
(* What the claims speak of *)

ValidAddress(s) == ~Raises(ip_to_int(s))

\* the rows whose range contains the address n
Containing(rows, n) == {r \in rows : r.min_ip <= n /\ n <= r.max_ip}

\* the rows of the file thread t's instance was constructed over that
\* contain the address the thread passed
ContainingArg(t) == Containing(loaded[self[t]].rows, ip_to_int(arg[t]).val)

\* the record carries the metadata of row r
MetadataOf(rec, r) ==
    /\ rec.network = r.network
    /\ rec.asn = r.asn
    /\ rec.organization = r.organization
    /\ rec.country = r.country

\* the unknown record of the spec for address string s
IsUnknown(rec) ==
    /\ rec.asn = "00000000"
    /\ rec.organization = "unknown"
    /\ rec.country = "XX"

\* C1: a returned lookup of a valid address that some row of the dataset
\* contains carries the metadata of a containing row than which no
\* containing row has a smaller max_ip - min_ip; with one containing row,
\* that row's metadata.
C1_NarrowestRange ==
    \A t \in Threads :
        (Returned(t) /\ ValidAddress(arg[t]) /\ ContainingArg(t) # {}) =>
            /\ ret[t] # None
            /\ \E r \in ContainingArg(t) :
                   /\ \A o \in ContainingArg(t) :
                          o.max_ip - o.min_ip >= r.max_ip - r.min_ip
                   /\ MetadataOf(ret[t], r)
            /\ \A r \in ContainingArg(t) :
                   ContainingArg(t) = {r} => MetadataOf(ret[t], r)

\* the address inside the nested ranges was looked up over a file holding
\* both, and the /24 came back
C1_Witness ==
    \E t \in Threads :
        /\ Returned(t)
        /\ arg[t] = AddrNested
        /\ {R24, R16} \subseteq ContainingArg(t)
        /\ MetadataOf(ret[t], R24)

\* C2: a lookup of a valid address that no row contains does not raise and
\* returns the unknown record, whose min_ip and max_ip denote the integer
\* value of the address; an unknown record is returned for no address that
\* a row contains.
C2_UnknownSentinel ==
    \A t \in Threads :
        (Finished(t) /\ ValidAddress(arg[t])) =>
            /\ ContainingArg(t) = {} =>
                   /\ outcome[t] = "returned"
                   /\ ret[t] # None
                   /\ IsUnknown(ret[t])
                   /\ int10(ret[t].min_ip) = ip_to_int(arg[t]).val
                   /\ int10(ret[t].max_ip) = ip_to_int(arg[t]).val
            /\ (outcome[t] = "returned" /\ ret[t] # None /\ IsUnknown(ret[t]))
                   => ContainingArg(t) = {}

\* 99.9.9.9 was looked up over a file with rows and the unknown record came
\* back
C2_Witness ==
    \E t \in Threads :
        /\ Returned(t)
        /\ arg[t] = AddrNone
        /\ loaded[self[t]].rows = RowPool
        /\ ret[t] # None
        /\ IsUnknown(ret[t])

\* a string of digits without its leading zeros
RECURSIVE Significant(_)
Significant(o) ==
    IF Len(o) > 1 /\ Head(o) = "0" THEN Significant(Tail(o)) ELSE o

\* the octet is a decimal number above 255
Above255(o) ==
    /\ isdigit(o)
    /\ \/ Len(Significant(o)) > 3
       \/ int10(Significant(o)) > 255

\* the malformed strings the spec lists: empty, not four octets, an octet
\* that is not a number, an octet outside [0, 255]
Malformed(s) ==
    \/ s = <<>>
    \/ Len(split(s, <<>>, <<>>)) # 4
    \/ \E k \in 1..Len(split(s, <<>>, <<>>)) :
           LET o == split(s, <<>>, <<>>)[k] IN ~isdigit(o) \/ Above255(o)

CanStep(t) ==
    /\ pc[t] # "idle"
    /\ pc[t] = "acquire" => lock[self[t]] = 0

\* what a lookup of string s run alone over the rows may return
Reference(rows, s) ==
    LET n == ip_to_int(s) IN
    IF Raises(n) THEN {None}
    ELSE {result_network(s, n.val, r) : r \in fetchone(rows, n.val)}

SameKey(t, u) == self[t] = self[u] /\ arg[t] = arg[u]

\* C4 as claimed: two lookups of one address string on one instance return
\* identical results
C4_SameResult ==
    \A t \in Threads : \A u \in Threads :
        (Returned(t) /\ Returned(u) /\ SameKey(t, u)) => ret[t] = ret[u]

C6_MutualExclusion ==
    \A i \in Inst :
        Cardinality({t \in Threads : pc[t] = "execute" /\ self[t] = i}) <= 1

\* one caller is inside execute() while another waits for the lock
C6_Witness ==
    \E t \in Threads : \E u \in Threads \ {t} :
        /\ pc[t] = "execute"
        /\ pc[u] = "acquire"
        /\ self[t] = self[u]

\* C7: the cache never holds more than its capacity, and an entry leaves it
\* only when a new key is inserted into the full cache, and then the entry
\* that leaves is the one inserted or hit longest ago.
C7_BoundedLRU ==
    /\ [](Len(cache) <= CacheSize)
    /\ [][\A k \in Keys(cache) \ Keys(cache') :
              /\ Len(cache) = CacheSize
              /\ k = used[1]
              /\ Cardinality(Keys(cache') \ Keys(cache)) = 1
              /\ Keys(cache) \ Keys(cache') = {k}]_vars

\* a call returned and its entry has since been evicted from the full cache
C7_Witness ==
    \E t \in Threads :
        /\ Returned(t)
        /\ make_key(self[t], arg[t]) \notin Keys(cache)
        /\ Len(cache) = CacheSize

\* C8 as claimed: two concurrent lookups of one uncached address never both
\* execute the query
C8_SingleFlight ==
    \A t \in Threads : \A u \in Threads \ {t} :
        ~ /\ SameKey(t, u)
          /\ pc[t] # "idle" /\ nq[t] >= 1
          /\ pc[u] # "idle" /\ nq[u] >= 1

\* C8: every cache entry is a whole result of its key, stored once, and a
\* call executes at most one query; concurrent misses of one key are not
\* merged.
C8_WholeEntries ==
    /\ \A k \in 1..Len(cache) :
           cache[k].result \in
               Reference(loaded[cache[k].key[1]].rows, cache[k].key[2])
    /\ \A j \in 1..Len(cache) : \A k \in 1..Len(cache) :
           cache[j].key = cache[k].key => j = k
    /\ \A t \in Threads : nq[t] <= 1

\* two lookups of one address each executed a query and returned, and the
\* cache holds the key
C8_Witness ==
    \E t \in Threads : \E u \in Threads \ {t} :
        /\ SameKey(t, u)
        /\ Returned(t) /\ nq[t] = 1
        /\ Returned(u) /\ nq[u] = 1
        /\ make_key(self[t], arg[t]) \in Keys(cache)

\* C9: over a missing file construction fails: the instance never becomes
\* usable, no lookup is run on it or cached for it, and the connection
\* opened before the failure is closed when the failed instance is collected.
C9_MissingFile ==
    /\ [](\A i \in Inst :
              (state[i] # "unborn" /\ ~file.exists) =>
                  /\ state[i] \in {"failed", "dead"}
                  /\ \A t \in Threads : self[t] # i
                  /\ \A k \in Keys(cache) : k[1] # i)
    /\ \A i \in Inst : (state[i] = "failed") ~> (conn[i] = "closed")

\* construction failed over the missing file and the connection is closed
C9_Witness ==
    \E i \in Inst :
        /\ ~file.exists
        /\ state[i] = "dead"
        /\ conn[i] = "closed"

\* C10 as claimed: every lookup returns what the file held at construction
\* yields, and none fails, whatever happens to the file afterwards
C10_LoadedOnce ==
    \A t \in Threads :
        Finished(t) =>
            /\ outcome[t] = "returned"
            /\ ret[t] \in Reference(loaded[self[t]].rows, arg[t])

\* C11: the connection of an instance is opened once, at construction, and
\* closed once: an open connection stays open or becomes closed, a closed
\* one stays closed; it is not closed while a call on the instance is
\* running; and once the caller dropped the instance the connection is
\* eventually closed.
C11_ConnectionLifecycle ==
    /\ [][\A i \in Inst :
             /\ conn[i] = "open" => conn'[i] \in {"open", "closed"}
             /\ conn[i] = "closed" => conn'[i] = "closed"]_vars
    /\ [](\A i \in Inst : \A t \in Threads :
             conn[i] = "closed" => ~(pc[t] # "idle" /\ self[t] = i))
    /\ \A i \in Inst : (state[i] = "dropped") ~> (conn[i] = "closed")

\* C12: a call executes at most one query; a call answered from the cache
\* executes none; a call whose query failed ends by raising to its caller,
\* after that one query.
C12_NoRetries ==
    /\ [](\A t \in Threads :
             /\ nq[t] <= 1
             /\ (Finished(t) /\ exc[t] # "none") =>
                    (outcome[t] = "raised" /\ nq[t] = 1))
    /\ [][\A t \in callers, i \in insts, a \in pool :
             (Call(t, i, a) /\ make_key(i, a) \in Keys(cache)) =>
                 (Returned(t)' /\ nq'[t] = 0)]_vars

\* a query failed (the file is gone) and the call raised after one query,
\* while another address is in the cache
C12_Witness ==
    \E t \in Threads :
        /\ Finished(t) /\ outcome[t] = "raised" /\ exc[t] = "IOException"
        /\ nq[t] = 1
        /\ cache # <<>>

C14_DeterministicTieBreak ==
    \A t \in Threads : \A u \in Threads :
        (/\ pc[t] # "idle" /\ pc[u] # "idle"
         /\ fetched[t] # None /\ fetched[u] # None
         /\ self[t] = self[u] /\ ip_int[t] = ip_int[u]) =>
            fetched[t] = fetched[u]

\* C15: a call with a malformed address, the first or a repeated one, never
\* comes to take the lock or to execute a query, and what it returns is not
\* the unknown record.
C15_MalformedNotLookedUp ==
    \A t \in Threads :
        (outcome[t] # "none" /\ Malformed(arg[t])) =>
            /\ nq[t] = 0
            /\ pc[t] \notin {"acquire", "execute", "release", "build"}
            /\ \A i \in Inst : lock[i] # t
            /\ Returned(t) => (ret[t] = None \/ ~IsUnknown(ret[t]))

\* a call with a malformed address returned without a query, its None in
\* the cache for the repeated calls
C15_Witness ==
    \E t \in Threads :
        /\ Returned(t) /\ Malformed(arg[t])
        /\ nq[t] = 0
        /\ make_key(self[t], arg[t]) \in Keys(cache)
        /\ Entry(cache, make_key(self[t], arg[t])).result = None

\* C16: the thread that holds the lock of an instance is inside the with
\* block of a call on that instance, at the query or leaving the block
\* after it: not at the cache lookup, the normalization, the building of the
\* record or the cache insertion, and not between calls.
C16_LockScope ==
    \A i \in Inst :
        lock[i] # 0 =>
            /\ self[lock[i]] = i
            /\ pc[lock[i]] \in {"execute", "release"}

\* one thread holds the lock at the query while the other is at the cache
\* insertion of its own call
C16_Witness ==
    \E i \in Inst : \E t \in Threads : \E u \in Threads \ {t} :
        /\ lock[i] = t /\ pc[t] = "execute"
        /\ pc[u] = "insert" /\ self[u] = i

\* C19: when a call ended because its query raised, the thread holds no
\* lock and the cache has no entry for the key of the call; the next call
\* with that key is a miss, which goes on to the query.
C19_AfterFailedQuery ==
    /\ [](\A t \in Threads :
             (Finished(t) /\ outcome[t] = "raised") =>
                 /\ \A i \in Inst : lock[i] # t
                 /\ make_key(self[t], arg[t]) \notin Keys(cache))
    /\ [][\A t \in callers :
             (/\ Finished(t) /\ outcome[t] = "raised"
              /\ Call(t, self[t], arg[t])) =>
                 (pc'[t] = "norm" /\ cache' = cache)]_vars

\* a call ended by the failure of its query, and the lock is free again
C19_Witness ==
    \E t \in Threads :
        /\ Finished(t) /\ outcome[t] = "raised" /\ exc[t] = "IOException"
        /\ lock[self[t]] = 0
        /\ make_key(self[t], arg[t]) \notin Keys(cache)

\* C17: once the with block of a crawler is left, driver.quit() has been
\* called; the with statement ends the way its body ended (normally, or
\* with the exception of the body), never with an error of driver.quit();
\* and an error of driver.quit() has been logged.
C17_ContextManagerQuits ==
    /\ crawler.block = "left" =>
           /\ crawler.quits >= 1
           /\ crawler.close_exc = "none"
           /\ crawler.out = IF crawler.pending # "none"
                            THEN crawler.pending ELSE "normal"
    /\ crawler.quit_error => "Error closing WebDriver" \in crawler.log

\* the with block was left by an exception of crawl(), and driver.quit()
\* raised inside close()
C17_Witness ==
    /\ crawler.block = "left"
    /\ crawler.pending = "TimeoutException"
    /\ crawler.out = "TimeoutException"
    /\ crawler.quit_error
    /\ crawler.quits = 1

\* C18: during one crawl() manage() is called at most once, and only when
\* driver.get() returned and readyState was seen complete; a crawl() in
\* which driver.get() or the wait raised never called manage(); and
\* whatever was raised inside crawl(), by manage() too, is the exception
\* crawl() leaves with.
C18_CrawlOrdering ==
    /\ crawler.managed <= 1
    /\ (crawler.pc = "manage" \/ crawler.managed >= 1) =>
           (crawler.got /\ crawler.complete)
    /\ (crawler.thrown # "none" /\ ~(crawler.got /\ crawler.complete)) =>
           crawler.managed = 0
    /\ (crawler.pc = "idle" /\ crawler.thrown # "none") =>
           crawler.exc = crawler.thrown

\* manage() ran after the page was complete and raised, and crawl() left
\* with its exception
C18_Witness ==
    /\ crawler.pc = "idle"
    /\ crawler.managed = 1
    /\ crawler.got /\ crawler.complete
    /\ crawler.thrown = "IndexError"
    /\ crawler.exc = "IndexError"

\* C20: driver.quit() is called at most once over the close(), __exit__ and
\* __del__ calls of one crawler, and no close() leaves with an exception,
\* also when __init__ raised in _initialize_driver.
C20_TeardownOnce ==
    /\ crawler.quits <= 1
    /\ crawler.close_exc = "none"

\* C21: the cache is one table for all instances, of at most CacheSize
\* entries in all, each under a key (instance, address) of an existing
\* instance; an entry appears only when a call on the instance of its key,
\* with the address of its key, ends, and holds what that call returns; a
\* call on instance i with address a is answered from the entry of key
\* (i, a) and is a miss when there is none, whatever the other instances
\* cached for a.
C21_CacheIsolation ==
    /\ [](/\ Len(cache) <= CacheSize
          /\ \A k \in 1..Len(cache) :
                 /\ cache[k].key[1] \in insts
                 /\ \A j \in 1..Len(cache) :
                        cache[j].key = cache[k].key => j = k)
    /\ [][\A k \in Keys(cache') :
             IF k \in Keys(cache)
             THEN Entry(cache', k).result = Entry(cache, k).result
             ELSE \E t \in Threads :
                      /\ pc[t] = "insert" /\ pc'[t] = "idle"
                      /\ self[t] = k[1] /\ arg[t] = k[2]
                      /\ Entry(cache', k).result = ret[t]]_vars
    /\ [][\A t \in callers, i \in insts, a \in pool :
             Call(t, i, a) =>
                 IF <<i, a>> \in Keys(cache)
                 THEN /\ Returned(t)'
                      /\ ret'[t] = Entry(cache, <<i, a>>).result
                 ELSE pc'[t] = "norm"]_vars

\* a call on instance 1 ran its query and returned, so its result was
\* cached; the cache is now full of entries of instance 2 alone, one of them
\* for the same address, and the entry of instance 1 is gone
C21_Witness ==
    \E t \in Threads :
        /\ Returned(t) /\ nq[t] = 1 /\ self[t] = 1
        /\ <<1, arg[t]>> \notin Keys(cache)
        /\ <<2, arg[t]>> \in Keys(cache)
        /\ Len(cache) = CacheSize
        /\ \A k \in Keys(cache) : k[1] = 2

\* C22: no lookup returns a record that carries what a caller wrote into a
\* record returned earlier: the write stays out of the cache.
C22_ReturnedRecordsIndependent ==
    [][\A t \in callers, i \in insts, a \in pool :
          (Call(t, i, a) /\ Returned(t)' /\ ret'[t] # None) =>
              ret'[t].country # Written]_vars

====
